---------------------------- MODULE Spec2Model ----------------------------
(***************************************************************************)
(* A model of test_cpp/main.cpp (CV DebugMate C++ - Test & Demo).          *)
(*                                                                         *)
(* Spec      the whole program: main() calling the six routines in turn,   *)
(*           demo_3d_pointcloud loop by loop, the auto-refresh loop        *)
(*           statement by statement, and demo_multithreaded with its six   *)
(*           workers interleaved.  The bodies of demo_2d_images,           *)
(*           demo_1d_plots and demo_pointer_types are one step each.       *)
(* FairSpec  Spec with weak fairness of the main thread and every worker.  *)
(* SpecImg   the integer pixel fill loops, one image row per step.         *)
(*                                                                         *)
(* Floating point values are kept symbolically, as the integer operands    *)
(* the C expression is evaluated on (sin, cos and the float arithmetic are *)
(* functions of their operands).  Values drawn from rand() are not kept.   *)
(***************************************************************************)
EXTENDS Integers, Sequences, FiniteSets, Bags, TLC

VARIABLES
  fn,            \* the function the main thread is executing
  pc,            \* the main thread's position in fn
  nxt,           \* main(): index in Order of the next routine to call
  log,           \* history: the calls, markers and returns of the main thread
  out,           \* the lines written to std::cout so far (a set: order dropped)
  exit_code,     \* what main() returned; -1 while it runs
  i, j, pt,      \* the live loop variable i, the inner j, the range-for cursor
  iteration,     \* demo_auto_refresh: the for loop's variable
  dynamic_img, dynamic_vec, dynamic_array, dynamic_cloud,
  bp_loop,       \* demo_auto_refresh: the marker variable
  bp_hist,       \* history: <<bp_loop, dynamic_vec.size()>> at every marker
  threads,       \* demo_multithreaded: the std::thread objects and their threads
  t,             \* demo_multithreaded: the join loop's position in threads
  acc,           \* history: <<thread, owner, object>> accesses while workers run
  cloud_f, cloud_d, array_cloud_f,   \* demo_3d_pointcloud
  img, y, row    \* a pixel fill loop: the buffer, its row, the row written last

progVars    == <<fn, pc, nxt, log, out, exit_code>>
loopVars    == <<i, j, pt>>
refreshVars == <<iteration, dynamic_img, dynamic_vec, dynamic_array,
                 dynamic_cloud, bp_loop, bp_hist>>
threadVars  == <<threads, t, acc>>
cloudVars   == <<cloud_f, cloud_d, array_cloud_f>>
imgVars     == <<img, y, row>>
vars == <<progVars, loopVars, refreshVars, threadVars, cloudVars, imgVars>>

Min(a, b) == IF a < b THEN a ELSE b

(***************************************************************************)
(* Bound of the model.                                                     *)
(***************************************************************************)
\* Spec keeps the first MaxElems rows, columns or elements of a worker's
\* buffer (thread_img, thread_vec, thread_cloud); SpecImg fills all of them.
MaxElems == 3

Window(n) == Min(n, MaxElems)

(***************************************************************************)
(* int arithmetic.  TLC computes in 32 bit two's complement integers, the  *)
(* width of int, and stops with an error where a result leaves the range.  *)
(***************************************************************************)
\* static_cast<uchar>(v), static_cast<uint8_t>(v): the value modulo 2^8
Cast8(v) == v % 256

(***************************************************************************)
(* main(): the routines in the order of their calls.                       *)
(***************************************************************************)
OrderSwapped ==
  << "demo_2d_images", "demo_3d_pointcloud", "demo_1d_plots",
     "demo_pointer_types", "demo_auto_refresh", "demo_multithreaded" >>

Order ==
  << "demo_2d_images", "demo_3d_pointcloud", "demo_1d_plots",
     "demo_auto_refresh", "demo_pointer_types", "demo_multithreaded" >>

\* the routines whose body is one step of Spec
Plain == {"demo_2d_images", "demo_1d_plots", "demo_pointer_types"}

Banner ==
  { <<"========================================">>,
    <<"  CV DebugMate C++ - Test & Demo">>,
    <<"">>,
    <<"Set breakpoints at the marked locations,">>,
    <<"then use CV DebugMate to visualize!">> }

AllDone == <<"\n=== All demos complete ===">>

\* demo_3d_pointcloud: the sphere, the ground plane, the std::array spiral
numPoints == 500000

numGroundOneMore == 100000 + 1

numGround == 100000

ARRAY_SIZE == 10000

\* what a routine prints before its marker (before its loops, for the routines
\* modelled loop by loop)
Lines(d) ==
  CASE d = "demo_2d_images" ->
         { <<"\n=== 2D Image Examples ===">>,
           <<"  img_bgr: ", 6400, "x", 4800, " CV_8UC3">>,
           <<"  img_gray: ", 6400, "x", 4800, " CV_8U">>,
           <<"  img_float: ", 6400, "x", 4800, " CV_32FC3">>,
           <<"  matx_3x3: 3x3 Matx33f">>,
           <<"  array_2d_int: 3x4 std::array<std::array<int,4>,3>">>,
           <<"  rawArr2D: 2x3 int[2][3]">>,
           <<"  rawArr1D: 6 int[6]">>,
           <<"  c_img: 100x150x3 uint8_t[100][150][3]">>,
           <<"  std_img: 100x150x3 std::array<std::array<Pixel,150>,100>">> }
    [] d = "demo_3d_pointcloud" ->
         { <<"\n=== 3D Point Cloud Examples ===">> }
    [] d = "demo_1d_plots" ->
         { <<"\n=== 1D Plot Examples ===">>,
           <<"  vec_sin: ", 100000, " floats">>,
           <<"  array_float: ", 10000, " floats (std::array)">>,
           <<"  mat_1d_row: 1x10 CV_32F">> }
         \* "  set_double: n doubles": n is the number of distinct rand()
         \* values among 1000 draws, which the model does not keep
    [] d = "demo_pointer_types" ->
         { <<"\n=== Pointer Type Examples ===">>,
           <<"Pointers to supported types can also be visualized!">>,
           <<"  mat_original: ", 150, "x", 100, " CV_8UC3">>,
           <<"  pMat: pointer to mat_original">>,
           <<"  vec_original: ", 100, " floats">>,
           <<"  pVec: pointer to vec_original">>,
           <<"  cloud_original: ", 200, " Point3f">>,
           <<"  pCloud: pointer to cloud_original">>,
           <<"  pMatx: pointer to Matx33f">>,
           <<"  pArray: pointer to std::array<double, 50>">>,
           <<"  pArray2D: pointer to std::array<std::array<int, 5>, 4>">>,
           <<"">>,
           <<"  Note: Both the original variable and its pointer">>,
           <<"        will share the same visualization tab!">> }
    [] d = "demo_auto_refresh" ->
         { <<"\n=== Auto-Refresh Test ===">>,
           <<"This demo modifies data in a loop.">>,
           <<"Step through with debugger to see webview auto-refresh!">> }
    [] d = "demo_multithreaded" ->
         { <<"\n=== Multi-Threaded Debugging Examples ===">>,
           <<"This demo creates multiple threads with local variables.">>,
           <<"To test:">>,
           <<"  1. Set breakpoints inside worker_thread_* functions">>,
           <<"  2. When stopped, select different threads in debugger">>,
           <<"  3. CV DebugMate will show variables from selected thread!">>,
           <<"">> }


(***************************************************************************)
(* State of the objects that are not alive.                                *)
(***************************************************************************)
NoRefresh ==
  /\ iteration = -1
  /\ dynamic_img = <<>>
  /\ dynamic_vec = <<>>
  /\ dynamic_array = <<>>
  /\ dynamic_cloud = <<>>
  /\ bp_loop = -1

NoCloud == cloud_f = EmptyBag /\ cloud_d = EmptyBag /\ array_cloud_f = 0

NoImg == img = "" /\ y = 0 /\ row = <<>>

\* main() has not run yet
Start ==
  /\ fn = "main" /\ pc = "banner" /\ nxt = 1
  /\ log = <<>> /\ out = {} /\ exit_code = -1
  /\ i = 0 /\ j = 0 /\ pt = 0
  /\ NoRefresh /\ bp_hist = <<>>
  /\ threads = <<>> /\ t = 0 /\ acc = {}
  /\ NoCloud

Init == Start /\ NoImg

(***************************************************************************)
(* main()                                                                  *)
(***************************************************************************)
\* lines 617-622
MainBanner ==
  /\ fn = "main" /\ pc = "banner"
  /\ out' = out \cup Banner
  /\ pc' = "call"
  /\ UNCHANGED <<fn, nxt, log, exit_code, loopVars, refreshVars, threadVars,
                 cloudVars, imgVars>>

\* lines 625-630: the next call
MainCall ==
  /\ fn = "main" /\ pc = "call" /\ nxt <= Len(Order)
  /\ fn' = Order[nxt]
  /\ pc' = "entry"
  /\ log' = Append(log, <<"call", Order[nxt]>>)
  /\ UNCHANGED <<nxt, out, exit_code, loopVars, refreshVars, threadVars,
                 cloudVars, imgVars>>

\* lines 632-633
MainExit ==
  /\ fn = "main" /\ pc = "call" /\ nxt > Len(Order)
  /\ out' = out \cup {AllDone}
  /\ exit_code' = 0
  /\ pc' = "exit"
  /\ UNCHANGED <<fn, nxt, log, loopVars, refreshVars, threadVars, cloudVars,
                 imgVars>>

\* the closing brace of a routine: back in main(), after the call
Return(d) ==
  /\ fn' = "main" /\ pc' = "call" /\ nxt' = nxt + 1
  /\ log' = Append(log, <<"return", d>>)

(***************************************************************************)
(* demo_2d_images, demo_1d_plots, demo_pointer_types: the body up to the   *)
(* marker, the marker, the return.                                         *)
(***************************************************************************)
PlainBody ==
  /\ fn \in Plain /\ pc = "entry"
  /\ out' = out \cup Lines(fn)
  /\ pc' = "marker"
  /\ UNCHANGED <<fn, nxt, log, exit_code, loopVars, refreshVars, threadVars,
                 cloudVars, imgVars>>

\* int bp1 = 0; (bp2, bp3, bp5)
PlainMarker ==
  /\ fn \in Plain /\ pc = "marker"
  /\ log' = Append(log, <<"marker", fn>>)
  /\ pc' = "ret"
  /\ UNCHANGED <<fn, nxt, out, exit_code, loopVars, refreshVars, threadVars,
                 cloudVars, imgVars>>

PlainReturn ==
  /\ fn \in Plain /\ pc = "ret"
  /\ Return(fn)
  /\ UNCHANGED <<out, exit_code, loopVars, refreshVars, threadVars, cloudVars,
                 imgVars>>

(***************************************************************************)
(* demo_3d_pointcloud, one loop per step.                                  *)
(*                                                                         *)
(* The coordinates come from rand() and are not kept: cloud_f and cloud_d  *)
(* are the bags of their points' origins, the loop that pushed each one.   *)
(* array_cloud_f is the number of leading elements of the std::array that  *)
(* have been assigned.                                                     *)
(***************************************************************************)
\* the rounds of for (i = first; i < end; i++)
Rounds(first, end) == Cardinality(first .. end - 1)

\* n times push_back of a point of this origin
PushAll(cloud, origin, n) ==
  IF n > 0 THEN cloud (+) [o \in {origin} |-> n] ELSE cloud

\* lines 201-209
CloudEntry ==
  /\ fn = "demo_3d_pointcloud" /\ pc = "entry"
  /\ out' = out \cup Lines(fn)
  /\ cloud_f' = EmptyBag /\ cloud_d' = EmptyBag
  /\ pc' = "sphere"
  /\ UNCHANGED <<fn, nxt, log, exit_code, loopVars, refreshVars, threadVars,
                 array_cloud_f, imgVars>>

\* lines 210-219
CloudSphere ==
  /\ fn = "demo_3d_pointcloud" /\ pc = "sphere"
  /\ cloud_f' = PushAll(cloud_f, "sphere", Rounds(0, numPoints))
  /\ cloud_d' = PushAll(cloud_d, "sphere", Rounds(0, numPoints))
  /\ pc' = "ground"
  /\ UNCHANGED <<fn, nxt, log, out, exit_code, loopVars, refreshVars,
                 threadVars, array_cloud_f, imgVars>>

\* lines 222-228
CloudGround ==
  /\ fn = "demo_3d_pointcloud" /\ pc = "ground"
  /\ cloud_f' = PushAll(cloud_f, "ground", Rounds(0, numGround))
  /\ cloud_d' = PushAll(cloud_d, "ground", Rounds(0, numGround))
  /\ pc' = "array"
  /\ UNCHANGED <<fn, nxt, log, out, exit_code, loopVars, refreshVars,
                 threadVars, array_cloud_f, imgVars>>

\* lines 231-242
CloudArray ==
  /\ fn = "demo_3d_pointcloud" /\ pc = "array"
  /\ array_cloud_f' = Rounds(0, ARRAY_SIZE)
  /\ pc' = "print"
  /\ UNCHANGED <<fn, nxt, log, out, exit_code, loopVars, refreshVars,
                 threadVars, cloud_f, cloud_d, imgVars>>

\* lines 244-247
CloudPrint ==
  /\ fn = "demo_3d_pointcloud" /\ pc = "print"
  /\ out' = out \cup
       { <<"  cloud_f: ", BagCardinality(cloud_f), " Point3f">>,
         <<"  cloud_d: ", BagCardinality(cloud_d), " Point3d">>,
         <<"  array_cloud_f: ", ARRAY_SIZE, " Point3f (std::array)">> }
  /\ pc' = "marker"
  /\ UNCHANGED <<fn, nxt, log, exit_code, loopVars, refreshVars, threadVars,
                 cloudVars, imgVars>>

\* line 250: int bp2 = 0;
CloudMarker ==
  /\ fn = "demo_3d_pointcloud" /\ pc = "marker"
  /\ log' = Append(log, <<"marker", fn>>)
  /\ pc' = "ret"
  /\ UNCHANGED <<fn, nxt, out, exit_code, loopVars, refreshVars, threadVars,
                 cloudVars, imgVars>>

\* line 256: the locals are destroyed
CloudReturn ==
  /\ fn = "demo_3d_pointcloud" /\ pc = "ret"
  /\ Return(fn)
  /\ cloud_f' = EmptyBag /\ cloud_d' = EmptyBag /\ array_cloud_f' = 0
  /\ UNCHANGED <<out, exit_code, loopVars, refreshVars, threadVars, imgVars>>

Cloud ==
  \/ CloudEntry \/ CloudSphere \/ CloudGround \/ CloudArray
  \/ CloudPrint \/ CloudMarker \/ CloudReturn

(***************************************************************************)
(* demo_auto_refresh                                                       *)
(*                                                                         *)
(* dynamic_img is the cv::Mat's header and the drawing calls made on it,   *)
(* with the arguments as passed.  A float of dynamic_vec or dynamic_array  *)
(* is [arg, mul] for sin(arg * step) * mul; a point of dynamic_cloud is    *)
(* [a, rot, z]: the point at angle a/100 of a turn, rotated rot times by   *)
(* 0.1 rad, with z = sin(z * 0.5f) * 2.0f (z = -1: the initial 0).         *)
(***************************************************************************)
\* line 354: iteration < 10
NumPasses == 10

VecPerPassOneLess == 10 - 1

\* line 365: j < 10
VecPerPass == 10

\* line 343: std::array<float, 50>
ArrayLen == 50

\* line 348: i < 100
CloudLen == 100

\* line 358: cv::Scalar(50 * iteration, 255 - 20 * iteration, 100 + 10 * iteration)
CircleColor(it) ==
  << (50 * it), (255 - (20 * it)), (100 + (10 * it)) >>

CircleRadiusFlat(it) == 10 + 15

\* line 357: 10 + iteration * 15
CircleRadius(it) == (10 + (it * 15))

\* line 354: iteration++
NextIteration(it) == it + 1

NextIndexStuck(n) == n

\* line 371: i++
NextIndex(n) == n + 1

\* lines 331-347
RefreshEntry ==
  /\ fn = "demo_auto_refresh" /\ pc = "entry"
  /\ out' = out \cup Lines(fn)
  /\ dynamic_img' = [rows |-> 200, cols |-> 200, channels |-> 3,
                     fill |-> <<0, 0, 0>>, circles |-> <<>>, texts |-> <<>>]
  /\ dynamic_vec' = <<>>
  /\ dynamic_array' = [n \in 0 .. ArrayLen - 1 |-> [arg |-> 0, mul |-> 0]]
  /\ dynamic_cloud' = <<>>
  /\ i' = 0
  /\ pc' = "init_cloud"
  /\ UNCHANGED <<fn, nxt, log, exit_code, j, pt, iteration, bp_loop, bp_hist,
                 threadVars, cloudVars, imgVars>>

\* lines 348-351
RefreshInitCloud ==
  /\ fn = "demo_auto_refresh" /\ pc = "init_cloud"
  /\ IF i < CloudLen
       THEN /\ dynamic_cloud' = Append(dynamic_cloud, [a |-> i, rot |-> 0, z |-> -1])
            /\ i' = i + 1
            /\ UNCHANGED <<pc, iteration>>
       ELSE /\ iteration' = 0
            /\ pc' = "for"
            /\ UNCHANGED <<dynamic_cloud, i>>
  /\ UNCHANGED <<fn, nxt, log, out, exit_code, j, pt, dynamic_img, dynamic_vec,
                 dynamic_array, bp_loop, bp_hist, threadVars, cloudVars, imgVars>>

\* line 354: the loop test
RefreshFor ==
  /\ fn = "demo_auto_refresh" /\ pc = "for"
  /\ pc' = IF iteration < NumPasses THEN "circle" ELSE "finished"
  /\ UNCHANGED <<fn, nxt, log, out, exit_code, loopVars, refreshVars, threadVars,
                 cloudVars, imgVars>>

\* lines 356-359
RefreshCircle ==
  /\ fn = "demo_auto_refresh" /\ pc = "circle"
  /\ dynamic_img' =
       [dynamic_img EXCEPT !.circles =
          Append(@, [center |-> <<100, 100>>, radius |-> CircleRadius(iteration),
                     color |-> CircleColor(iteration), thickness |-> -1])]
  /\ pc' = "putText"
  /\ UNCHANGED <<fn, nxt, log, out, exit_code, loopVars, iteration, dynamic_vec,
                 dynamic_array, dynamic_cloud, bp_loop, bp_hist, threadVars,
                 cloudVars, imgVars>>

\* lines 360-362
RefreshPutText ==
  /\ fn = "demo_auto_refresh" /\ pc = "putText"
  /\ dynamic_img' =
       [dynamic_img EXCEPT !.texts =
          Append(@, [text |-> <<"Frame ", iteration>>, org |-> <<10, 30>>,
                     color |-> <<255, 255, 255>>])]
  /\ j' = 0
  /\ pc' = "vec"
  /\ UNCHANGED <<fn, nxt, log, out, exit_code, i, pt, iteration, dynamic_vec,
                 dynamic_array, dynamic_cloud, bp_loop, bp_hist, threadVars,
                 cloudVars, imgVars>>

PushFront(vec, val) == <<val>> \o vec

\* line 367: dynamic_vec.push_back(val)
PushBack(vec, val) == Append(vec, val)

\* lines 365-368
RefreshVec ==
  /\ fn = "demo_auto_refresh" /\ pc = "vec"
  /\ IF j < VecPerPass
       THEN /\ dynamic_vec' = PushBack(dynamic_vec,
                                [arg |-> ((iteration * 10) + j),
                                 mul |-> (iteration + 1)])
            /\ j' = j + 1
            /\ UNCHANGED <<pc, i>>
       ELSE /\ i' = 0
            /\ pc' = "array"
            /\ UNCHANGED <<dynamic_vec, j>>
  /\ UNCHANGED <<fn, nxt, log, out, exit_code, pt, iteration, dynamic_img,
                 dynamic_array, dynamic_cloud, bp_loop, bp_hist, threadVars,
                 cloudVars, imgVars>>

\* lines 371-373
RefreshArray ==
  /\ fn = "demo_auto_refresh" /\ pc = "array"
  /\ IF i < ArrayLen
       THEN /\ dynamic_array' =
                 [dynamic_array EXCEPT ![i] = [arg |-> i + iteration * 5,
                                               mul |-> iteration + 1]]
            /\ i' = NextIndex(i)
            /\ UNCHANGED <<pc, pt>>
       ELSE /\ pt' = 1
            /\ pc' = "rotate"
            /\ UNCHANGED <<dynamic_array, i>>
  /\ UNCHANGED <<fn, nxt, log, out, exit_code, j, iteration, dynamic_img,
                 dynamic_vec, dynamic_cloud, bp_loop, bp_hist, threadVars,
                 cloudVars, imgVars>>

\* lines 376-382
RefreshRotate ==
  /\ fn = "demo_auto_refresh" /\ pc = "rotate"
  /\ IF pt <= Len(dynamic_cloud)
       THEN /\ dynamic_cloud' =
                 [dynamic_cloud EXCEPT ![pt] = [a |-> @.a, rot |-> @.rot + 1,
                                                z |-> iteration]]
            /\ pt' = pt + 1
            /\ UNCHANGED pc
       ELSE /\ pc' = "print"
            /\ UNCHANGED <<dynamic_cloud, pt>>
  /\ UNCHANGED <<fn, nxt, log, out, exit_code, i, j, iteration, dynamic_img,
                 dynamic_vec, dynamic_array, bp_loop, bp_hist, threadVars,
                 cloudVars, imgVars>>

\* lines 384-385
RefreshPrint ==
  /\ fn = "demo_auto_refresh" /\ pc = "print"
  /\ out' = out \cup {<<"  Iteration ", iteration, ": vec size=", Len(dynamic_vec)>>}
  /\ pc' = "bp"
  /\ UNCHANGED <<fn, nxt, log, exit_code, loopVars, refreshVars, threadVars,
                 cloudVars, imgVars>>

\* line 389: int bp_loop = iteration;
RefreshMarker ==
  /\ fn = "demo_auto_refresh" /\ pc = "bp"
  /\ bp_loop' = iteration
  /\ bp_hist' = Append(bp_hist, <<iteration, Len(dynamic_vec)>>)
  /\ log' = Append(log, <<"marker", fn>>)
  /\ pc' = "incr"
  /\ UNCHANGED <<fn, nxt, out, exit_code, loopVars, iteration, dynamic_img,
                 dynamic_vec, dynamic_array, dynamic_cloud, threadVars,
                 cloudVars, imgVars>>

\* line 354: iteration++ (bp_loop goes out of scope)
RefreshIncr ==
  /\ fn = "demo_auto_refresh" /\ pc = "incr"
  /\ iteration' = NextIteration(iteration)
  /\ bp_loop' = -1
  /\ pc' = "for"
  /\ UNCHANGED <<fn, nxt, log, out, exit_code, loopVars, dynamic_img,
                 dynamic_vec, dynamic_array, dynamic_cloud, bp_hist, threadVars,
                 cloudVars, imgVars>>

\* line 400
RefreshFinished ==
  /\ fn = "demo_auto_refresh" /\ pc = "finished"
  /\ out' = out \cup {<<"  Loop finished!">>}
  /\ pc' = "ret"
  /\ UNCHANGED <<fn, nxt, log, exit_code, loopVars, refreshVars, threadVars,
                 cloudVars, imgVars>>

\* line 401: the locals are destroyed
RefreshReturn ==
  /\ fn = "demo_auto_refresh" /\ pc = "ret"
  /\ Return(fn)
  /\ iteration' = -1 /\ bp_loop' = -1
  /\ dynamic_img' = <<>> /\ dynamic_vec' = <<>>
  /\ dynamic_array' = <<>> /\ dynamic_cloud' = <<>>
  /\ i' = 0 /\ j' = 0 /\ pt' = 0
  /\ UNCHANGED <<out, exit_code, bp_hist, threadVars, cloudVars, imgVars>>

Refresh ==
  \/ RefreshEntry \/ RefreshInitCloud \/ RefreshFor \/ RefreshCircle
  \/ RefreshPutText \/ RefreshVec \/ RefreshArray \/ RefreshRotate
  \/ RefreshPrint \/ RefreshMarker \/ RefreshIncr \/ RefreshFinished
  \/ RefreshReturn

(***************************************************************************)
(* The workers.  A thread is named by its position in `threads` (1..6);    *)
(* the main thread is 0.  An object is <<owner, name>>: owner is the       *)
(* thread whose stack holds it, -1 for static storage (std::cout).         *)
(***************************************************************************)
\* line 505: cv::Mat thread_img(100, 100, CV_8UC3)
ThreadImgSize == 100

\* line 534: std::vector<float> thread_vec(50)
ThreadVecLen == 50

\* line 556: i < 100
ThreadCloudLen == 100

\* lines 510-512: the three values handed to static_cast<uchar>
ThreadImgPixel(id, x, yy) ==
  << (id * 50 + x) % 256, (id * 80 + yy) % 256, (id * 40) % 256 >>

\* lines 505-517: the image, and the text drawn on it
FillImage(id) ==
  [ pix  |-> [yy \in 0 .. Window(ThreadImgSize) - 1 |->
               [x \in 0 .. Window(ThreadImgSize) - 1 |->
                 [c \in 1 .. 3 |-> Cast8(ThreadImgPixel(id, x, yy)[c])]]],
    text |-> <<"Thread ", id>> ]

\* line 537: sin(i * 0.2f + thread_id) * (thread_id + 1) * 10.0f,
\* arg in tenths: 2 i + 10 thread_id
VecValue(id, n) == [arg |-> 2 * n + 10 * id, mul |-> ((id + 1) * 10)]

\* lines 534-538
FillVector(id) == [n \in 0 .. Window(ThreadVecLen) - 1 |-> VecValue(id, n)]

\* lines 557-562: t = n/100 of a turn; radius = 2 + thread_id * 0.5, in halves;
\* x and y at angle t * (thread_id + 1); z = t * thread_id * 0.5
CloudPoint(id, n) ==
  [turn |-> (n * (id + 1)), radius |-> 4 + id, z |-> (n * id)]

RECURSIVE PushCloud(_, _, _)
\* lines 555-563: the loop, one push_back per round
PushCloud(id, n, cloud) ==
  IF n < Window(ThreadCloudLen)
    THEN PushCloud(id, n + 1, Append(cloud, CloudPoint(id, n)))
    ELSE cloud

FillCloud(id) == PushCloud(id, 0, <<>>)

Fill(f, id) ==
  CASE f = "worker_thread_image" -> FillImage(id)
    [] f = "worker_thread_vector" -> FillVector(id)
    [] f = "worker_thread_pointcloud" -> FillCloud(id)

Kind(f) ==
  CASE f = "worker_thread_image" -> "Image"
    [] f = "worker_thread_vector" -> "Vector"
    [] f = "worker_thread_pointcloud" -> "PointCloud"

BufName(f) ==
  CASE f = "worker_thread_image" -> "thread_img"
    [] f = "worker_thread_vector" -> "thread_vec"
    [] f = "worker_thread_pointcloud" -> "thread_cloud"

BpName(f) ==
  CASE f = "worker_thread_image" -> "bp_thread_img"
    [] f = "worker_thread_vector" -> "bp_thread_vec"
    [] f = "worker_thread_pointcloud" -> "bp_thread_cloud"

Cout == <<-1, "std::cout">>

ThreadArgByRef(w) == i

\* lines 501, 529, 550: int thread_id, the worker's own copy of the argument
ThreadArg(w) == threads[w].thread_id

ArgObjectByRef(w) == <<0, "i">>

\* the object a worker reads when it reads thread_id
ArgObject(w) == <<w, "thread_id">>

Touch(w, objs) == {<<w, o[1], o[2]>> : o \in objs}

\* some worker has been started and has not returned
Alive == \E w \in 1 .. Len(threads) : threads[w].pc # "exit"

\* the main thread's accesses count while a worker runs
MainTouch(objs) == IF Alive THEN Touch(0, objs) ELSE {}

\* lines 502, 530, 551
WorkerStart(w) ==
  /\ w <= Len(threads) /\ threads[w].pc = "start"
  /\ out' = out \cup {<<"  Thread ", ThreadArg(w),
                        " (" \o Kind(threads[w].fn) \o "): Starting...">>}
  /\ threads' = [threads EXCEPT ![w].pc = "fill"]
  /\ acc' = acc \cup Touch(w, {ArgObject(w), Cout})
  /\ UNCHANGED <<fn, pc, nxt, log, exit_code, loopVars, refreshVars, t,
                 cloudVars, imgVars>>

\* lines 505-517, 534-538, 555-563
WorkerFill(w) ==
  /\ w <= Len(threads) /\ threads[w].pc = "fill"
  /\ threads' = [threads EXCEPT ![w].buf = Fill(threads[w].fn, ThreadArg(w)),
                                ![w].pc = "bp"]
  /\ acc' = acc \cup Touch(w, {ArgObject(w), <<w, BufName(threads[w].fn)>>})
  /\ UNCHANGED <<progVars, loopVars, refreshVars, t, cloudVars, imgVars>>

\* lines 521, 542, 567: int bp_thread_img = thread_id;
WorkerMarker(w) ==
  /\ w <= Len(threads) /\ threads[w].pc = "bp"
  /\ threads' = [threads EXCEPT ![w].bp = ThreadArg(w), ![w].pc = "done"]
  /\ acc' = acc \cup Touch(w, {ArgObject(w), <<w, BpName(threads[w].fn)>>})
  /\ UNCHANGED <<progVars, loopVars, refreshVars, t, cloudVars, imgVars>>

\* lines 525-526, 546-547, 571-572: the last line, then the locals are destroyed
WorkerDone(w) ==
  /\ w <= Len(threads) /\ threads[w].pc = "done"
  /\ out' = out \cup {<<"  Thread ", ThreadArg(w),
                        " (" \o Kind(threads[w].fn) \o "): Done">>}
  /\ threads' = [threads EXCEPT ![w].buf = <<>>, ![w].bp = -1, ![w].pc = "exit"]
  /\ acc' = acc \cup Touch(w, {ArgObject(w), Cout})
  /\ UNCHANGED <<fn, pc, nxt, log, exit_code, loopVars, refreshVars, t,
                 cloudVars, imgVars>>

Worker(w) ==
  \/ WorkerStart(w) \/ WorkerFill(w) \/ WorkerMarker(w) \/ WorkerDone(w)

(***************************************************************************)
(* demo_multithreaded                                                      *)
(***************************************************************************)
ImageEndMore == 2 + 1

\* line 591: for (int i = 0; i < 2; i++)
ImageEnd == 2

\* line 596: for (int i = 2; i < 4; i++)
VectorBegin == 2

VectorEnd == 4

\* line 601: for (int i = 4; i < 6; i++)
PointcloudBegin == 4

PointcloudEnd == 6

\* the threads the three launch loops create
NumThreads ==
  (ImageEnd - 0) + (VectorEnd - VectorBegin) + (PointcloudEnd - PointcloudBegin)

\* threads.emplace_back(f, i): the thread starts with its own copy of i
NewThread(f, id) == [fn |-> f, thread_id |-> id, pc |-> "start", buf |-> <<>>,
                     bp |-> -1]

JoinNoWait(w) == TRUE

\* line 607: t.join() returns once the thread has returned
Joinable(w) == threads[w].pc = "exit"

\* lines 575-588
MultiEntry ==
  /\ fn = "demo_multithreaded" /\ pc = "entry"
  /\ out' = out \cup Lines(fn)
  /\ threads' = <<>>
  /\ i' = 0
  /\ pc' = "launch_image"
  /\ UNCHANGED <<fn, nxt, log, exit_code, j, pt, refreshVars, t, acc,
                 cloudVars, imgVars>>

\* a launch loop: emplace_back while i < end, then on to `next`, i = begin
Launch(f, end, next, begin) ==
  /\ fn = "demo_multithreaded"
  /\ acc' = acc \cup MainTouch({<<0, "i">>, <<0, "threads">>})
  /\ IF i < end
       THEN /\ threads' = Append(threads, NewThread(f, i))
            /\ i' = i + 1
            /\ UNCHANGED <<pc, t>>
       ELSE /\ pc' = next
            /\ i' = begin
            /\ t' = 1
            /\ UNCHANGED threads
  /\ UNCHANGED <<fn, nxt, log, out, exit_code, j, pt, refreshVars, cloudVars,
                 imgVars>>

\* lines 591-593
MultiLaunchImage ==
  /\ pc = "launch_image"
  /\ Launch("worker_thread_image", ImageEnd, "launch_vector", VectorBegin)

\* lines 596-598
MultiLaunchVector ==
  /\ pc = "launch_vector"
  /\ Launch("worker_thread_vector", VectorEnd, "launch_pointcloud",
            PointcloudBegin)

\* lines 601-603
MultiLaunchPointcloud ==
  /\ pc = "launch_pointcloud"
  /\ Launch("worker_thread_pointcloud", PointcloudEnd, "join", 0)

\* lines 606-608
MultiJoin ==
  /\ fn = "demo_multithreaded" /\ pc = "join"
  /\ IF t <= Len(threads)
       THEN /\ Joinable(t)
            /\ t' = t + 1
            /\ UNCHANGED pc
       ELSE /\ pc' = "completed"
            /\ UNCHANGED t
  /\ acc' = acc \cup MainTouch({<<0, "threads">>})
  /\ UNCHANGED <<fn, nxt, log, out, exit_code, loopVars, refreshVars, threads,
                 cloudVars, imgVars>>

\* line 610
MultiCompleted ==
  /\ fn = "demo_multithreaded" /\ pc = "completed"
  /\ out' = out \cup {<<"  All threads completed!">>}
  /\ acc' = acc \cup MainTouch({Cout})
  /\ pc' = "ret"
  /\ UNCHANGED <<fn, nxt, log, exit_code, loopVars, refreshVars, threads, t,
                 cloudVars, imgVars>>

\* line 611.  The vector is destroyed; its elements, all joined, stay in
\* `threads` as the record of the threads that ran.
MultiReturn ==
  /\ fn = "demo_multithreaded" /\ pc = "ret"
  /\ Return(fn)
  /\ i' = 0 /\ t' = 0
  /\ acc' = acc \cup MainTouch({Cout})
  /\ UNCHANGED <<out, exit_code, j, pt, refreshVars, threads, cloudVars, imgVars>>

Multi ==
  \/ MultiEntry \/ MultiLaunchImage \/ MultiLaunchVector
  \/ MultiLaunchPointcloud \/ MultiJoin \/ MultiCompleted \/ MultiReturn

(***************************************************************************)
(* The program.                                                            *)
(***************************************************************************)
MainThread ==
  \/ MainBanner \/ MainCall \/ MainExit
  \/ PlainBody \/ PlainMarker \/ PlainReturn
  \/ Cloud
  \/ Refresh
  \/ Multi

Workers == \E w \in 1 .. NumThreads : Worker(w)

Next == MainThread \/ Workers

Spec == Init /\ [][Next]_vars

\* the scheduler runs every thread that can run
FairSpec ==
  /\ Spec
  /\ WF_vars(MainThread)
  /\ \A w \in 1 .. NumThreads : WF_vars(Worker(w))

(***************************************************************************)
(* The integer pixel fill loops, one row per step (SpecImg).               *)
(*                                                                         *)
(* img is <<buffer, thread_id>> (thread_id 0 for the main thread's         *)
(* buffers).  row[c] holds, for channel c of the row written last, the     *)
(* pairs <<v, b>>: a value v handed to the narrowing conversion at some x  *)
(* of the row, and the byte b stored for it.                               *)
(*                                                                         *)
(* Every operand of / and % in these loops is non-negative (0 <= x < cols, *)
(* 0 <= y < rows, thread_id >= 0), where the truncating division of C is   *)
(* \div and its remainder is %.                                            *)
(***************************************************************************)
MainImages == {"img_bgr", "c_img", "c_img_gray", "c_img_rgba", "std_img",
               "std_img_gray", "mat_original"}

\* lines 41, 108, 123, 131, 143, 157, 412, 505
Rows(b) ==
  CASE b = "img_bgr" -> 4800
    [] b = "c_img" -> 100
    [] b = "c_img_gray" -> 50
    [] b = "c_img_rgba" -> 60
    [] b = "std_img" -> 100
    [] b = "std_img_gray" -> 30
    [] b = "mat_original" -> 100
    [] b = "thread_img" -> ThreadImgSize

\* lines 41, 109, 123, 131, 143, 157, 412, 505
Cols(b) ==
  CASE b = "img_bgr" -> 6400
    [] b = "c_img" -> 150
    [] b = "c_img_gray" -> 80
    [] b = "c_img_rgba" -> 60
    [] b = "std_img" -> 150
    [] b = "std_img_gray" -> 40
    [] b = "mat_original" -> 150
    [] b = "thread_img" -> ThreadImgSize

BgrBlueWide == {(x * 256) \div 6400 : x \in 0 .. 6399}

\* line 45: x * 255 / img_bgr.cols, over a row (the same in every row)
BgrBlue == {(x * 255) \div 6400 : x \in 0 .. 6399}

StdImgGreenOff(yy) == 256 - (yy * 255) \div 100

\* line 150: 255 - y * 255 / height
StdImgGreen(yy) == 255 - (yy * 255) \div 100

\* the values the channels of row yy are assigned, before any conversion
RowIn(b, id, yy) ==
  CASE b = "img_bgr" ->                                     \* lines 44-47
         << BgrBlue,
            {(yy * 255) \div 4800},
            {((x + yy) * 255) \div (6400 + 4800) : x \in 0 .. 6399} >>
    [] b = "c_img" ->                                       \* lines 116-118
         << {(yy * 255) \div 100},
            {(x * 255) \div 150 : x \in 0 .. 149},
            {128} >>
    [] b = "c_img_gray" ->                                  \* line 126
         << {((x + yy) * 255) \div 130 : x \in 0 .. 79} >>
    [] b = "c_img_rgba" ->                                  \* lines 134-137
         << {(x * 255) \div 60 : x \in 0 .. 59},
            {(yy * 255) \div 60},
            {100},
            {255} >>
    [] b = "std_img" ->                                     \* lines 148-152
         << {0},
            {StdImgGreen(yy)},
            {(x * 255) \div 150 : x \in 0 .. 149} >>
    [] b = "std_img_gray" ->                                \* line 160
         << {(yy * 255) \div 30} >>
    [] b = "mat_original" ->                                \* lines 415-417
         << {(x * 255) \div 150 : x \in 0 .. 149},
            {(yy * 255) \div 100},
            {128} >>
    [] b = "thread_img" ->                                  \* lines 509-512
         << {ThreadImgPixel(id, x, yy)[1] : x \in 0 .. ThreadImgSize - 1},
            {ThreadImgPixel(id, x, yy)[2] : x \in 0 .. ThreadImgSize - 1},
            {ThreadImgPixel(id, x, yy)[3] : x \in 0 .. ThreadImgSize - 1} >>

\* the largest int (32 bit, two's complement)
INT_MAX == 2147483647


\* the int multiplications and additions of the fill formulas of row yy, in
\* the order of the source, as <<operation, left operands, right operands>>:
\* the operation is evaluated on every pair of the two sets (x runs over the
\* columns of the row)
RowOps(b, id, yy) ==
  CASE b = "img_bgr" ->                                     \* lines 45-47
         << <<"mul", 0 .. 6399, {255}>>,
            <<"mul", {yy}, {255}>>,
            <<"add", 0 .. 6399, {yy}>>,
            <<"mul", {x + yy : x \in 0 .. 6399}, {255}>>,
            <<"add", {6400}, {4800}>> >>
    [] b = "c_img" ->                                       \* lines 116-117
         << <<"mul", {yy}, {255}>>,
            <<"mul", 0 .. 149, {255}>> >>
    [] b = "c_img_gray" ->                                  \* line 126
         << <<"add", 0 .. 79, {yy}>>,
            <<"mul", {x + yy : x \in 0 .. 79}, {255}>> >>
    [] b = "c_img_rgba" ->                                  \* lines 134-135
         << <<"mul", 0 .. 59, {255}>>,
            <<"mul", {yy}, {255}>> >>
    [] b = "std_img" ->                                     \* lines 150-151
         << <<"mul", {yy}, {255}>>,
            <<"mul", 0 .. 149, {255}>> >>
    [] b = "std_img_gray" ->                                \* line 160
         << <<"mul", {yy}, {255}>> >>
    [] b = "mat_original" ->                                \* lines 416-417
         << <<"mul", 0 .. 149, {255}>>,
            <<"mul", {yy}, {255}>> >>
    [] b = "thread_img" ->                                  \* lines 510-512
         << <<"mul", {id}, {50}>>,
            <<"add", {id * 50}, 0 .. ThreadImgSize - 1>>,
            <<"mul", {id}, {80}>>,
            <<"add", {id * 80}, {yy}>>,
            <<"mul", {id}, {40}>> >>

\* a fill loop about to start, of any of the buffers; the rest of the
\* program's state plays no part in the loop and is left as at the start
InitImg ==
  /\ Start
  /\ img \in {<<b, 0>> : b \in MainImages}
             \cup {<<"thread_img", id>> : id \in 0 .. ImageEnd - 1}
  /\ y = 0 /\ row = <<>>

\* one round of a fill loop's outer for (y): the inner for (x) over the row
ImgFillRow ==
  /\ y < Rows(img[1])
  /\ \E in \in {RowIn(img[1], img[2], y)} :
       row' = [c \in DOMAIN in |-> {<<v, Cast8(v)>> : v \in in[c]}]
  /\ y' = y + 1
  /\ UNCHANGED <<img, progVars, loopVars, refreshVars, threadVars, cloudVars>>

NextImg == ImgFillRow

SpecImg == InitImg /\ [][NextImg]_vars

(***************************************************************************)
(* The claims.                                                             *)
(***************************************************************************)
AtCloudMarker == fn = "demo_3d_pointcloud" /\ pc \in {"marker", "ret"}

\* C1 (as amended): at the marker of demo_3d_pointcloud, cloud_f and cloud_d
\* each hold exactly the 500000 sphere points and the 100000 ground-plane
\* points, 600000 in all, and nothing else: no pillar point is generated.
C1_CloudIsSphereAndGround ==
  AtCloudMarker =>
    /\ BagCardinality(cloud_f) = 500000 + 100000
    /\ BagCardinality(cloud_d) = 500000 + 100000
    /\ BagToSet(cloud_f) = {"sphere", "ground"}
    /\ cloud_d = cloud_f
    /\ CopiesIn("sphere", cloud_f) = 500000
    /\ CopiesIn("ground", cloud_f) = 100000
    /\ <<"  cloud_f: ", 600000, " Point3f">> \in out
    /\ <<"  cloud_d: ", 600000, " Point3d">> \in out

C1_AtMarker == AtCloudMarker /\ pc = "marker" /\ BagCardinality(cloud_f) > 0

\* C1 (as claimed): at the marker, cloud_f and cloud_d hold sphere, ground-plane
\* and pillar points, and their size is the sum of the three counts.
C1_CloudHasPillar ==
  AtCloudMarker =>
    /\ BagToSet(cloud_f) = {"sphere", "ground", "pillar"}
    /\ BagToSet(cloud_d) = {"sphere", "ground", "pillar"}
    /\ BagCardinality(cloud_f) =
         CopiesIn("sphere", cloud_f) + CopiesIn("ground", cloud_f)
           + CopiesIn("pillar", cloud_f)
    /\ BagCardinality(cloud_d) =
         CopiesIn("sphere", cloud_d) + CopiesIn("ground", cloud_d)
           + CopiesIn("pillar", cloud_d)

\* C2: the loop of demo_auto_refresh makes exactly 10 passes, iteration =
\* 0, 1, ..., 9 in this order; dynamic_vec holds 10 * (k + 1) values at the end
\* of pass k, more than at the end of any earlier pass, and 100 once
\* "Loop finished!" is printed.
C2_TenPasses ==
  /\ Len(bp_hist) <= 10
  /\ \A k \in 1 .. Len(bp_hist) : bp_hist[k] = <<k - 1, 10 * k>>
  /\ \A k, m \in 1 .. Len(bp_hist) : k < m => bp_hist[k][2] < bp_hist[m][2]
  /\ (fn = "demo_auto_refresh" /\ pc \in {"bp", "incr"}) =>
       /\ iteration \in 0 .. 9
       /\ Len(dynamic_vec) = 10 * (iteration + 1)
  /\ <<"  Loop finished!">> \in out =>
       /\ Len(bp_hist) = 10
       /\ fn = "demo_auto_refresh" => Len(dynamic_vec) = 100

C2_LoopFinished ==
  /\ fn = "demo_auto_refresh" /\ pc = "ret"
  /\ <<"  Loop finished!">> \in out
  /\ Len(dynamic_vec) = 100

\* C3: every value an integer fill formula hands to the conversion to an
\* 8 bit channel lies in 0..255, so the byte stored is the value itself, for
\* every row and column of img_bgr, c_img, c_img_gray, c_img_rgba, std_img,
\* std_img_gray, mat_original and the thread_img of threads 0 and 1.
C3_ChannelsInRange ==
  \A c \in DOMAIN row : \A p \in row[c] : p[1] \in 0 .. 255 /\ p[2] = p[1]

\* the last row of each buffer has been written
C3_BufferFilled ==
  /\ img = <<"thread_img", 1>>
  /\ y = Rows(img[1]) /\ row # <<>>
  /\ <<1 * 80 + 99, 179>> \in row[2]

\* C4: in every pass of the loop of demo_auto_refresh, the three colour
\* components passed for the circle drawn into the 8 bit dynamic_img lie in
\* 0..255.
C4_CircleColorIn8Bit ==
  dynamic_img # <<>> =>
    \A k \in 1 .. Len(dynamic_img.circles) :
      \A c \in 1 .. 3 : dynamic_img.circles[k].color[c] \in 0 .. 255

WorkerFn(id) ==
  CASE id \in {0, 1} -> "worker_thread_image"
    [] id \in {2, 3} -> "worker_thread_vector"
    [] id \in {4, 5} -> "worker_thread_pointcloud"
    [] OTHER -> "none"

LaunchOver ==
  \/ fn = "demo_multithreaded" /\ pc \in {"join", "completed", "ret"}
  \/ \E k \in 1 .. Len(log) : log[k] = <<"return", "demo_multithreaded">>

\* C5: demo_multithreaded creates exactly six threads with the identifiers
\* 0..5, each given once: 0 and 1 run worker_thread_image, 2 and 3
\* worker_thread_vector, 4 and 5 worker_thread_pointcloud; no other thread is
\* ever created.
C5_SixThreads ==
  /\ Len(threads) <= 6
  /\ \A w \in 1 .. Len(threads) :
       /\ threads[w].thread_id = w - 1
       /\ threads[w].fn = WorkerFn(threads[w].thread_id)
  /\ \A v, w \in 1 .. Len(threads) :
       v # w => threads[v].thread_id # threads[w].thread_id
  /\ LaunchOver => Len(threads) = 6
  /\ fn # "demo_multithreaded" /\ ~LaunchOver => Len(threads) = 0

C5_AllLaunched ==
  /\ fn = "demo_multithreaded" /\ pc = "join"
  /\ Len(threads) = 6
  /\ \A w \in 1 .. 6 : threads[w].pc = "start"

WorkerIds == 1 .. 6

\* C6 (as amended): while workers run, every object a worker reads or writes
\* is owned by that worker alone, except std::cout, which the workers write
\* their "Starting..." and "Done" lines to; the main thread then touches only
\* objects of its own, so no object other than std::cout is accessed by two
\* threads.
C6_NothingSharedButCout ==
  /\ \A a \in acc :
       \/ a[2] = a[1]
       \/ a[1] \in WorkerIds /\ <<a[2], a[3]>> = Cout
  /\ \A a, b \in acc :
       (<<a[2], a[3]>> = <<b[2], b[3]>> /\ a[1] # b[1]) => <<a[2], a[3]>> = Cout

\* all six workers are at their markers at once, each with a buffer of its own
C6_SixAtMarker ==
  /\ Len(threads) = 6
  /\ \A w \in WorkerIds :
       /\ threads[w].pc = "bp"
       /\ <<w, w, BufName(threads[w].fn)>> \in acc
       /\ <<w, Cout[1], Cout[2]>> \in acc

\* C6 (as claimed): every object a worker reads or writes between its start
\* and its exit is owned by that worker alone; no object is accessed by two
\* threads.
C6_NothingShared ==
  /\ \A a \in acc : a[1] \in WorkerIds => a[2] = a[1]
  /\ \A a, b \in acc : <<a[2], a[3]>> = <<b[2], b[3]>> => a[1] = b[1]

DoneLine(w) ==
  <<"  Thread ", w - 1, " (" \o Kind(WorkerFn(w - 1)) \o "): Done">>

\* C7: main launches all six workers before it joins any of them, and prints
\* "All threads completed!" (and returns from demo_multithreaded) only after
\* each of the six workers has printed its "Done" line and returned.
C7_JoinAll ==
  /\ (fn = "demo_multithreaded" /\ pc = "join") => Len(threads) = 6
  /\ (fn = "demo_multithreaded" /\ pc \in {"entry", "launch_image",
        "launch_vector", "launch_pointcloud"}) => t \in {0, 1}
  /\ ( \/ <<"  All threads completed!">> \in out
       \/ fn = "demo_multithreaded" /\ pc \in {"completed", "ret"}
       \/ \E k \in 1 .. Len(log) : log[k] = <<"return", "demo_multithreaded">> )
     => /\ Len(threads) = 6
        /\ \A w \in WorkerIds : threads[w].pc = "exit" /\ DoneLine(w) \in out

C7_Completed ==
  /\ fn = "demo_multithreaded" /\ pc = "ret"
  /\ <<"  All threads completed!">> \in out
  /\ \A w \in WorkerIds : DoneLine(w) \in out

\* C8: with the main thread and the workers scheduled fairly, every run
\* prints "=== All demos complete ===" and main returns 0.
C8_Terminates ==
  <>(fn = "main" /\ pc = "exit" /\ exit_code = 0 /\ AllDone \in out)

C8_Returned ==
  /\ fn = "main" /\ pc = "exit" /\ exit_code = 0 /\ AllDone \in out
  /\ Len(threads) = 6 /\ \A w \in WorkerIds : threads[w].pc = "exit"

Events(d, markers) ==
  <<<<"call", d>>>> \o [k \in 1 .. markers |-> <<"marker", d>>]
    \o <<<<"return", d>>>>

\* the calls, markers and returns of a run of main(), in the order claimed
ClaimedLog ==
  Events("demo_2d_images", 1) \o Events("demo_3d_pointcloud", 1)
    \o Events("demo_1d_plots", 1) \o Events("demo_auto_refresh", 10)
    \o Events("demo_pointer_types", 1) \o Events("demo_multithreaded", 0)

\* C9: main calls image generation, point-cloud generation, numeric-sequence
\* generation, the mutation loop, the pointer examples and the thread demo in
\* this order, each once; each of the first five has reached its marker and
\* returned before the next starts; workers are alive only while
\* demo_multithreaded runs.
C9_InOrder ==
  /\ Len(log) <= Len(ClaimedLog)
  /\ \A k \in 1 .. Len(log) : log[k] = ClaimedLog[k]
  /\ fn = "main" \/ (log # <<>> /\ \E k \in 1 .. Len(log) :
                       /\ log[k] = <<"call", fn>>
                       /\ \A m \in k + 1 .. Len(log) : log[m] = <<"marker", fn>>)
  /\ pc = "exit" => log = ClaimedLog
  /\ Alive => fn = "demo_multithreaded"

C9_AllCalled == pc = "exit" /\ log = ClaimedLog /\ Len(threads) = 6

\* C10: the buffer a worker holds at its marker is a function of its
\* thread_id alone, whatever the interleaving: thread_img[y][x] =
\* ((50 id + x) % 256, (80 id + y) % 256, (40 id) % 256) with the text
\* "Thread id"; thread_vec[n] = sin(n * 0.2 + id) * (id + 1) * 10;
\* thread_cloud[n] the point at angle n (id + 1) / 100 of a turn, radius
\* 2 + id / 2, z = t * id / 2.
C10_BufferOfIdAlone ==
  \A w \in 1 .. Len(threads) :
    threads[w].pc \in {"bp", "done"} =>
      LET id  == w - 1
          buf == threads[w].buf
      IN  /\ threads[w].thread_id = id
          /\ id \in {0, 1} =>
               /\ buf.text = <<"Thread ", id>>
               /\ DOMAIN buf.pix = 0 .. Window(100) - 1
               /\ \A yy \in DOMAIN buf.pix :
                    /\ DOMAIN buf.pix[yy] = 0 .. Window(100) - 1
                    /\ \A x \in DOMAIN buf.pix[yy] :
                         buf.pix[yy][x] = << (50 * id + x) % 256,
                                             (80 * id + yy) % 256,
                                             (40 * id) % 256 >>
          /\ id \in {2, 3} =>
               /\ DOMAIN buf = 0 .. Window(50) - 1
               /\ \A n \in DOMAIN buf :
                    buf[n] = [arg |-> 2 * n + 10 * id, mul |-> 10 * (id + 1)]
          /\ id \in {4, 5} =>
               /\ Len(buf) = Window(100)
               /\ \A n \in 1 .. Len(buf) :
                    buf[n] = [turn |-> (n - 1) * (id + 1), radius |-> 4 + id,
                              z |-> (n - 1) * id]
          /\ threads[w].pc = "done" => threads[w].bp = id

\* an image, a vector and a point-cloud worker at their markers while the
\* others are anywhere else
C10_ThreeAtMarker ==
  /\ Len(threads) = 6
  /\ threads[2].pc = "bp" /\ threads[4].pc = "bp" /\ threads[5].pc = "bp"
  /\ threads[1].pc = "exit" /\ threads[3].pc = "start" /\ threads[6].pc = "fill"

\* C11: whenever the loop of demo_auto_refresh is at its marker with
\* bp_loop = k, the four buffers show pass k and nothing later: dynamic_img
\* has the circles and the "Frame" texts of passes 0..k and no others, circle
\* m with radius 10 + 15*m; dynamic_vec holds 10*(k+1) values; every element
\* n of dynamic_array is the one computed in pass k; every point of
\* dynamic_cloud has been rotated k+1 times, last in pass k; and the
\* "Iteration k" line has been printed with 10*(k+1), no line of a later pass.
C11_MarkerShowsPass ==
  (fn = "demo_auto_refresh" /\ pc = "incr") =>
    /\ bp_loop \in 0 .. 9 /\ bp_loop = iteration
    /\ Len(dynamic_img.circles) = bp_loop + 1
    /\ \A m \in 1 .. Len(dynamic_img.circles) :
         /\ dynamic_img.circles[m].radius = 10 + 15 * (m - 1)
         /\ dynamic_img.circles[m].center = <<100, 100>>
    /\ Len(dynamic_img.texts) = bp_loop + 1
    /\ \A m \in 1 .. Len(dynamic_img.texts) :
         dynamic_img.texts[m].text = <<"Frame ", m - 1>>
    /\ Len(dynamic_vec) = 10 * (bp_loop + 1)
    /\ DOMAIN dynamic_array = 0 .. 49
    /\ \A n \in DOMAIN dynamic_array :
         dynamic_array[n] = [arg |-> n + bp_loop * 5, mul |-> bp_loop + 1]
    /\ Len(dynamic_cloud) = 100
    /\ \A n \in 1 .. Len(dynamic_cloud) :
         dynamic_cloud[n] = [a |-> n - 1, rot |-> bp_loop + 1, z |-> bp_loop]
    /\ <<"  Iteration ", bp_loop, ": vec size=", 10 * (bp_loop + 1)>> \in out
    /\ \A m \in 0 .. 10 : \A n \in 0 .. 110 :
         <<"  Iteration ", m, ": vec size=", n>> \in out =>
           m <= bp_loop /\ n = 10 * (m + 1)

\* the marker of the last pass
C11_AtLastMarker ==
  /\ fn = "demo_auto_refresh" /\ pc = "incr" /\ bp_loop = 9
  /\ Len(dynamic_img.circles) = 10
  /\ dynamic_img.circles[10].radius = 145
  /\ dynamic_cloud[100].rot = 10

IsPrefix(s, r) == Len(s) <= Len(r) /\ SubSeq(r, 1, Len(s)) = s

\* the loop of demo_auto_refresh, from its first test to the return
InLoop ==
  /\ fn = "demo_auto_refresh"
  /\ pc \in {"for", "circle", "putText", "vec", "array", "rotate", "print",
             "bp", "incr", "finished", "ret"}

\* C12: no step of the loop of demo_auto_refresh reshapes a buffer: a step
\* leaves the values dynamic_vec already holds where they are and appends at
\* most one, a pass appends 10 in all; dynamic_cloud has 100 points before
\* and after, dynamic_array 50 elements, and dynamic_img is 200x200 with 3
\* channels, in all 10 passes and up to the return.
C12_InPlace ==
  [][(InLoop /\ fn' = "demo_auto_refresh") =>
       /\ IsPrefix(dynamic_vec, dynamic_vec')
       /\ Len(dynamic_vec') <= Len(dynamic_vec) + 1
       /\ pc \in {"for", "circle", "putText"} =>
            Len(dynamic_vec) = 10 * iteration
       /\ pc' \in {"array", "rotate", "print", "bp", "incr"} =>
            Len(dynamic_vec') = 10 * iteration' + 10
       /\ Len(dynamic_cloud) = 100 /\ Len(dynamic_cloud') = 100
       /\ \A n \in 1 .. 100 : dynamic_cloud'[n].a = dynamic_cloud[n].a
       /\ DOMAIN dynamic_array = 0 .. 49 /\ DOMAIN dynamic_array' = 0 .. 49
       /\ <<dynamic_img.rows, dynamic_img.cols, dynamic_img.channels>>
            = <<200, 200, 3>>
       /\ <<dynamic_img'.rows, dynamic_img'.cols, dynamic_img'.channels>>
            = <<200, 200, 3>>
       /\ iteration' \in 0 .. 10]_vars

\* the loop is over: the values of the first pass are still in front
C12_AfterLastPass ==
  /\ fn = "demo_auto_refresh" /\ pc = "finished" /\ iteration = 10
  /\ Len(dynamic_vec) = 100
  /\ dynamic_vec[1] = [arg |-> 0, mul |-> 1]
  /\ dynamic_vec[100] = [arg |-> 99, mul |-> 10]
  /\ Len(dynamic_cloud) = 100 /\ DOMAIN dynamic_array = 0 .. 49

\* the channels of a buffer filled with a gradient quotient v * 255 / extent
Gradients(b) ==
  CASE b = "img_bgr" -> {1, 2, 3}
    [] b \in {"c_img", "c_img_rgba", "mat_original"} -> {1, 2}
    [] b \in {"c_img_gray", "std_img_gray"} -> {1}
    [] b = "std_img" -> {3}
    [] b = "thread_img" -> {}

\* the largest a >= 0 for which a * b, or a + b, is at most INT_MAX (b >= 0)
Most(op, b) ==
  CASE op = "mul" -> IF b = 0 THEN INT_MAX ELSE INT_MAX \div b
    [] op = "add" -> INT_MAX - b

\* C13: in every row of every image buffer, each int multiplication and
\* addition of a fill formula (x*255, y*255, x+y, (x+y)*255, thread_id*50,
\* thread_id*50 + x, thread_id*80, thread_id*80 + y, thread_id*40) has a
\* result of at most INT_MAX, its operands being non-negative, and each
\* gradient quotient v*255/extent is in 0..254 (so the green 255 - y*255/100
\* of std_img is in 1..255).
C13_NoIntOverflow ==
  y > 0 =>
    /\ \A ops \in {RowOps(img[1], img[2], y - 1)} :
         \A k \in DOMAIN ops : \A b \in ops[k][3] :
           /\ b >= 0
           /\ \E most \in {Most(ops[k][1], b)} :
                \A a \in ops[k][2] : a >= 0 /\ a <= most
    /\ \A c \in Gradients(img[1]) : \A p \in row[c] : p[1] \in 0 .. 254
    /\ img[1] = "std_img" => \A p \in row[2] : p[1] \in 1 .. 255

\* the last row of img_bgr, the largest product: (6399 + 4799) * 255 / 11200
C13_BgrLastRow ==
  /\ img = <<"img_bgr", 0>> /\ y = 4800
  /\ <<254, 254>> \in row[3]
  /\ RowOps("img_bgr", 0, 4799)[4] = <<"mul", 4799 .. 11198, {255}>>

=============================================================================
